---- MODULE Spec2Model ----
(***************************************************************************)
(* A model of helpers.py: the Memoize call cache (per-key locks, expiry,   *)
(* synchronous and background recomputation) and the ThreadedDict          *)
(* thread-local mapping with its registry of instances.                    *)
(***************************************************************************)
EXTENDS Integers, Sequences, FiniteSets, TLC

\* ------------------------------------------------------------------ bounds
\* The clock runs from 0 to MaxTime.
MaxTime == 2
\* The wrapped callable is invoked at most MaxCalls times in one behaviour.
MaxCalls == 3
\* ctx.headers holds at most MaxHeaders entries.
MaxHeaders == 2
\* The texts given to htmlquote have at most MaxLen characters.
MaxLen == 3

\* Threads that call the Memoize instance, and the threads it starts.
Callers == {"c1", "c2"}
Workers == {"w1"}
Procs == Callers \cup Workers
\* Cache keys: (args, tuple(keywords.items())).
Keys == {"a", "b"}
\* Memoize(func, expires, background): expires = 0 stands for None (and for
\* every other falsy value: the code tests `self.expires and ...`).
ExpiresChoices == {0, 1}

Nobody == "nobody"

\* Threads that use ThreadedDict objects, the objects, their keys and values.
TThreads == {"t1", "t2"}
Insts == {"d1", "d2"}
TKeys == {"x", "y"}
Vals == {1, 2}
\* The (key, value) pairs the threads store.
Items == {<<"x", 1>>, <<"x", 2>>, <<"y", 1>>}

VARIABLES
    background,     \* self.background
    expires,        \* self.expires
    cache,          \* self.cache: key -> <<value, timestamp>>
    running,        \* self.running: key -> lock object (an index into locks)
    locks,          \* every threading.Lock() created for a key: its holder
    running_lock,   \* self.running_lock: its holder
    pc,             \* where each thread is in __call__ / update
    key,            \* the key of each thread's call
    block,          \* update's parameter of each thread
    exc,            \* whether the wrapped callable raised in this thread
    inv,            \* the serial number of this thread's invocation of func
    calls,          \* invocations of the wrapped callable so far
    now,            \* time.time()
    result,         \* the value each caller's last call returned (0: none)
    path,           \* the branch each caller's call took at lines 355-361
    seen,           \* the cached value the call found at lines 355-357
    hadEntry,       \* whether the key had an entry when the call began
    hadFresh,       \* ... and that entry was not expired when the call began
                    \* (kept until the call tests the entry at line 355)
    \* ThreadedDict
    instances,      \* ThreadedDict._instances
    allocated,      \* the ThreadedDict objects that exist
    dicts,          \* instance -> thread -> that thread's __dict__
    tpc,            \* where each thread is: idle, in __init__, in clear_all
    tinst,          \* the instance a thread is constructing
    snapshot,       \* clear_all: what is left of list(_instances)
    raised,         \* whether the thread's last operation raised KeyError
    own,            \* instance -> thread -> key -> the value the thread
                    \* itself last stored there (0: none, or removed)
    \* header
    headers,        \* ctx.headers of each thread: a list of (name, value)
    hlast,          \* the last header call: coerced arguments and outcome
    allUnique,      \* every header call so far passed unique=True
    firsts,         \* while allUnique: (lowered name, value) of the first
                    \* valid call of each name, in order
    \* Storage
    store,          \* the dict content of a Storage object o
    slast,          \* the last operation on o and its outcome
    \* htmlquote
    text,           \* the argument
    quoted,         \* the value returned
    qdone           \* whether htmlquote has returned

memoVars == <<background, expires, cache, running, locks, running_lock, pc,
              key, block, exc, inv, calls, now, result, path, seen, hadEntry,
              hadFresh>>
tdVars == <<instances, allocated, dicts, tpc, tinst, snapshot, raised, own>>
hdrVars == <<headers, hlast, allUnique, firsts>>
stoVars == <<store, slast>>
htmlVars == <<text, quoted, qdone>>
restVars == <<hdrVars, stoVars, htmlVars>>
vars == <<memoVars, tdVars, restVars>>

\* ----------------------------------------------------------- Memoize: helpers

\* self.cache[key] = entry
DictSet(d, k, v) == [x \in DOMAIN d \cup {k} |-> IF x = k THEN v ELSE d[x]]

\* The lock object self.running[key] names.
LockOf(k) == running[k]
Holder(k) == locks[LockOf(k)]

\* A variant of Expired without the `self.expires and` guard.
Expired_Unguarded(k) == (now - cache[k][2]) > expires

\* (time.time() - self.cache[key][1]) > self.expires, guarded by self.expires
Expired(k) == expires # 0 /\ (now - cache[k][2]) > expires

\* Threads between the start of a call and the acquire of update: each may
\* still invoke the wrapped callable once.
PreFunc == {"with_enter", "get", "set", "with_exit", "test", "acquire"}
Pending == Cardinality({p \in Procs : pc[p] \in PreFunc})

\* Where update's caller goes when update returns normally.
AfterUpdate(p) == IF p \in Workers THEN "unstarted" ELSE "return"

\* ------------------------------------------------------ ThreadedDict: state

\* No ThreadedDict object has been created.
InitThreadedDictState ==
    /\ instances = {}
    /\ allocated = {}
    /\ dicts = [d \in Insts |-> <<>>]
    /\ tpc = [t \in TThreads |-> "idle"]
    /\ tinst = [t \in TThreads |-> "d1"]
    /\ snapshot = [t \in TThreads |-> {}]
    /\ raised = [t \in TThreads |-> FALSE]
    /\ own = [d \in Insts |-> [t \in TThreads |-> [k \in TKeys |-> 0]]]

\* -------------------------------------------- header, Storage, htmlquote: state

\* Threads that add response headers; ctx is thread-local.
HThreads == {"t1"}

\* The outcome of a call that returned.
NoError == "none"

\* ctx.headers = [] at the start of a response; no header call yet.
InitHeaderState ==
    /\ headers = [t \in HThreads |-> <<>>]
    /\ hlast = [t \in HThreads |->
                    [hdr |-> <<>>, value |-> <<>>, unique |-> FALSE,
                     err |-> NoError]]
    /\ allUnique = [t \in HThreads |-> TRUE]
    /\ firsts = [t \in HThreads |-> <<>>]

\* o = Storage(): empty; no operation yet.
InitStorageState ==
    /\ store = <<>>
    /\ slast = [op |-> "none", key |-> "a", absent |-> FALSE,
                kind |-> "none", val |-> 0, ekey |-> ""]

\* htmlquote not called.
InitHtmlState ==
    /\ text = <<>>
    /\ quoted = <<>>
    /\ qdone = FALSE

\* The state of the other parts of the module.
InitRest == InitHeaderState /\ InitStorageState /\ InitHtmlState

\* ----------------------------------------------------------- Memoize: actions

InitMemoize ==
    /\ background \in BOOLEAN
    /\ expires \in ExpiresChoices
    /\ cache = <<>>
    /\ running = <<>>
    /\ locks = <<>>
    /\ running_lock = Nobody
    /\ pc = [p \in Procs |-> IF p \in Workers THEN "unstarted" ELSE "idle"]
    /\ key = [p \in Procs |-> "a"]
    /\ block = [p \in Procs |-> FALSE]
    /\ exc = [p \in Procs |-> FALSE]
    /\ inv = [p \in Procs |-> 0]
    /\ calls = 0
    /\ now = 0
    /\ result = [p \in Callers |-> 0]
    /\ path = [p \in Callers |-> "none"]
    /\ seen = [p \in Callers |-> 0]
    /\ hadEntry = [p \in Callers |-> FALSE]
    /\ hadFresh = [p \in Callers |-> FALSE]
    /\ InitThreadedDictState
    /\ InitRest

\* A thread calls the Memoize instance with the arguments of key k.
Call(p, k) ==
    /\ p \in Callers
    /\ pc[p] = "idle"
    /\ calls + Pending < MaxCalls
    /\ pc' = [pc EXCEPT ![p] = "with_enter"]
    /\ key' = [key EXCEPT ![p] = k]
    /\ result' = [result EXCEPT ![p] = 0]
    /\ path' = [path EXCEPT ![p] = "none"]
    /\ seen' = [seen EXCEPT ![p] = 0]
    /\ inv' = [inv EXCEPT ![p] = 0]
    /\ exc' = [exc EXCEPT ![p] = FALSE]
    /\ hadEntry' = [hadEntry EXCEPT ![p] = k \in DOMAIN cache]
    /\ hadFresh' = [hadFresh EXCEPT
                        ![p] = k \in DOMAIN cache /\ ~Expired(k)]
    /\ UNCHANGED <<background, expires, cache, running, locks, running_lock,
                   block, calls, now>>
    /\ UNCHANGED <<tdVars, restVars>>

\* with self.running_lock:  (entry)
WithEnter(p) ==
    /\ pc[p] = "with_enter"
    /\ running_lock = Nobody
    /\ running_lock' = p
    /\ pc' = [pc EXCEPT ![p] = "get"]
    /\ UNCHANGED <<background, expires, cache, running, locks, key, block,
                   exc, inv, calls, now, result, path, seen, hadEntry>>
    /\ UNCHANGED hadFresh
    /\ UNCHANGED <<tdVars, restVars>>

\* A variant of RunningGet: a lock is created whether or not the key has one.
RunningGet_Unchecked(p) ==
    /\ pc[p] = "get"
    /\ pc' = [pc EXCEPT ![p] = "set"]
    /\ UNCHANGED <<background, expires, cache, running, locks, running_lock,
                   key, block, exc, inv, calls, now, result, path, seen, hadEntry>>
    /\ UNCHANGED hadFresh
    /\ UNCHANGED <<tdVars, restVars>>

\* if not self.running.get(key):
RunningGet(p) ==
    /\ pc[p] = "get"
    /\ pc' = [pc EXCEPT ![p] = IF key[p] \in DOMAIN running
                                 THEN "with_exit" ELSE "set"]
    /\ UNCHANGED <<background, expires, cache, running, locks, running_lock,
                   key, block, exc, inv, calls, now, result, path, seen, hadEntry>>
    /\ UNCHANGED hadFresh
    /\ UNCHANGED <<tdVars, restVars>>

\* A variant of RunningSet: one lock object shared by every key.
RunningSet_SharedLock(p) ==
    /\ pc[p] = "set"
    /\ locks' = IF locks = <<>> THEN <<Nobody>> ELSE locks
    /\ running' = DictSet(running, key[p], 1)
    /\ pc' = [pc EXCEPT ![p] = "with_exit"]
    /\ UNCHANGED <<background, expires, cache, running_lock, key, block, exc,
                   inv, calls, now, result, path, seen, hadEntry>>
    /\ UNCHANGED hadFresh
    /\ UNCHANGED <<tdVars, restVars>>

\* self.running[key] = threading.Lock()
RunningSet(p) ==
    /\ pc[p] = "set"
    /\ locks' = Append(locks, Nobody)
    /\ running' = DictSet(running, key[p], Len(locks) + 1)
    /\ pc' = [pc EXCEPT ![p] = "with_exit"]
    /\ UNCHANGED <<background, expires, cache, running_lock, key, block, exc,
                   inv, calls, now, result, path, seen, hadEntry>>
    /\ UNCHANGED hadFresh
    /\ UNCHANGED <<tdVars, restVars>>

\* with self.running_lock:  (exit)
WithExit(p) ==
    /\ pc[p] = "with_exit"
    /\ running_lock' = IF running_lock = p THEN Nobody ELSE running_lock
    /\ pc' = [pc EXCEPT ![p] = "test"]
    /\ UNCHANGED <<background, expires, cache, running, locks, key, block,
                   exc, inv, calls, now, result, path, seen, hadEntry>>
    /\ UNCHANGED hadFresh
    /\ UNCHANGED <<tdVars, restVars>>

\* if key not in self.cache: update(block=True)
TestMiss(p) ==
    /\ pc[p] = "test"
    /\ key[p] \notin DOMAIN cache
    /\ block' = [block EXCEPT ![p] = TRUE]
    /\ pc' = [pc EXCEPT ![p] = "acquire"]
    /\ path' = [path EXCEPT ![p] = "miss"]
    /\ UNCHANGED <<background, expires, cache, running, locks, running_lock,
                   key, exc, inv, calls, now, result, seen, hadEntry>>
    /\ hadFresh' = [hadFresh EXCEPT ![p] = FALSE]
    /\ UNCHANGED <<tdVars, restVars>>

\* A variant of TestExpiredBackground: the caller runs update itself.
TestExpiredBackground_Inline(p) ==
    /\ pc[p] = "test"
    /\ key[p] \in DOMAIN cache
    /\ Expired(key[p])
    /\ background
    /\ block' = [block EXCEPT ![p] = FALSE]
    /\ pc' = [pc EXCEPT ![p] = "acquire"]
    /\ path' = [path EXCEPT ![p] = "expired"]
    /\ seen' = [seen EXCEPT ![p] = cache[key[p]][1]]
    /\ UNCHANGED <<background, expires, cache, running, locks, running_lock,
                   key, exc, inv, calls, now, result, hadEntry>>
    /\ hadFresh' = [hadFresh EXCEPT ![p] = FALSE]
    /\ UNCHANGED <<tdVars, restVars>>

\* elif expired: if self.background: threading.Thread(target=update).start()
TestExpiredBackground(p) ==
    /\ pc[p] = "test"
    /\ key[p] \in DOMAIN cache
    /\ Expired(key[p])
    /\ background
    /\ \E w \in Workers :
        /\ pc[w] = "unstarted"
        /\ pc' = [pc EXCEPT ![p] = "return", ![w] = "acquire"]
        /\ key' = [key EXCEPT ![w] = key[p]]
        /\ block' = [block EXCEPT ![w] = FALSE]
        /\ exc' = [exc EXCEPT ![w] = FALSE]
        /\ inv' = [inv EXCEPT ![w] = 0]
    /\ path' = [path EXCEPT ![p] = "expired"]
    /\ seen' = [seen EXCEPT ![p] = cache[key[p]][1]]
    /\ UNCHANGED <<background, expires, cache, running, locks, running_lock,
                   calls, now, result, hadEntry>>
    /\ hadFresh' = [hadFresh EXCEPT ![p] = FALSE]
    /\ UNCHANGED <<tdVars, restVars>>

\* A variant of TestExpiredSync: update(block=True).
TestExpiredSync_Blocking(p) ==
    /\ pc[p] = "test"
    /\ key[p] \in DOMAIN cache
    /\ Expired(key[p])
    /\ ~background
    /\ block' = [block EXCEPT ![p] = TRUE]
    /\ pc' = [pc EXCEPT ![p] = "acquire"]
    /\ path' = [path EXCEPT ![p] = "expired"]
    /\ seen' = [seen EXCEPT ![p] = cache[key[p]][1]]
    /\ UNCHANGED <<background, expires, cache, running, locks, running_lock,
                   key, exc, inv, calls, now, result, hadEntry>>
    /\ hadFresh' = [hadFresh EXCEPT ![p] = FALSE]
    /\ UNCHANGED <<tdVars, restVars>>

\* elif expired: else: update()
TestExpiredSync(p) ==
    /\ pc[p] = "test"
    /\ key[p] \in DOMAIN cache
    /\ Expired(key[p])
    /\ ~background
    /\ block' = [block EXCEPT ![p] = FALSE]
    /\ pc' = [pc EXCEPT ![p] = "acquire"]
    /\ path' = [path EXCEPT ![p] = "expired"]
    /\ seen' = [seen EXCEPT ![p] = cache[key[p]][1]]
    /\ UNCHANGED <<background, expires, cache, running, locks, running_lock,
                   key, exc, inv, calls, now, result, hadEntry>>
    /\ hadFresh' = [hadFresh EXCEPT ![p] = FALSE]
    /\ UNCHANGED <<tdVars, restVars>>

\* Neither branch: the entry is there and not expired.
TestFresh(p) ==
    /\ pc[p] = "test"
    /\ key[p] \in DOMAIN cache
    /\ ~Expired(key[p])
    /\ pc' = [pc EXCEPT ![p] = "return"]
    /\ path' = [path EXCEPT ![p] = "fresh"]
    /\ seen' = [seen EXCEPT ![p] = cache[key[p]][1]]
    /\ UNCHANGED <<background, expires, cache, running, locks, running_lock,
                   key, block, exc, inv, calls, now, result, hadEntry>>
    /\ hadFresh' = [hadFresh EXCEPT ![p] = FALSE]
    /\ UNCHANGED <<tdVars, restVars>>

\* A variant of AcquireLock: the result of acquire is not tested.
AcquireLock_Unchecked(p) ==
    /\ pc[p] = "acquire"
    /\ locks' = [locks EXCEPT ![LockOf(key[p])] = p]
    /\ calls' = calls + 1
    /\ inv' = [inv EXCEPT ![p] = calls + 1]
    /\ pc' = [pc EXCEPT ![p] = "func"]
    /\ UNCHANGED <<background, expires, cache, running, running_lock, key,
                   block, exc, now, result, path, seen, hadEntry>>
    /\ UNCHANGED hadFresh
    /\ UNCHANGED <<tdVars, restVars>>

\* A variant of AcquireLock: with the lock in hand, the cache is looked at
\* again and the callable is not invoked when the key has an entry by now.
AcquireLock_SkipIfCached(p) ==
    /\ pc[p] = "acquire"
    /\ Holder(key[p]) = Nobody
    /\ locks' = [locks EXCEPT ![LockOf(key[p])] = p]
    /\ calls' = IF key[p] \in DOMAIN cache THEN calls ELSE calls + 1
    /\ inv' = IF key[p] \in DOMAIN cache THEN inv
              ELSE [inv EXCEPT ![p] = calls + 1]
    /\ pc' = [pc EXCEPT ![p] = IF key[p] \in DOMAIN cache
                                 THEN "release" ELSE "func"]
    /\ UNCHANGED <<background, expires, cache, running, running_lock, key,
                   block, exc, now, result, path, seen, hadEntry>>
    /\ UNCHANGED hadFresh
    /\ UNCHANGED <<tdVars, restVars>>

\* if self.running[key].acquire(block): succeeds, and self.func is called.
AcquireLock(p) ==
    /\ pc[p] = "acquire"
    /\ Holder(key[p]) = Nobody
    /\ locks' = [locks EXCEPT ![LockOf(key[p])] = p]
    /\ calls' = calls + 1
    /\ inv' = [inv EXCEPT ![p] = calls + 1]
    /\ pc' = [pc EXCEPT ![p] = "func"]
    /\ UNCHANGED <<background, expires, cache, running, running_lock, key,
                   block, exc, now, result, path, seen, hadEntry>>
    /\ UNCHANGED hadFresh
    /\ UNCHANGED <<tdVars, restVars>>

\* if self.running[key].acquire(False): fails, and update does nothing.
AcquireFail(p) ==
    /\ pc[p] = "acquire"
    /\ Holder(key[p]) # Nobody
    /\ ~block[p]
    /\ pc' = [pc EXCEPT ![p] = AfterUpdate(p)]
    /\ UNCHANGED <<background, expires, cache, running, locks, running_lock,
                   key, block, exc, inv, calls, now, result, path, seen, hadEntry>>
    /\ UNCHANGED hadFresh
    /\ UNCHANGED <<tdVars, restVars>>

\* self.func(*args, **keywords) returns.
FuncReturn(p) ==
    /\ pc[p] = "func"
    /\ pc' = [pc EXCEPT ![p] = "assign"]
    /\ UNCHANGED <<background, expires, cache, running, locks, running_lock,
                   key, block, exc, inv, calls, now, result, path, seen, hadEntry>>
    /\ UNCHANGED hadFresh
    /\ UNCHANGED <<tdVars, restVars>>

\* A variant of FuncRaise: the failure is cached as an entry without a value.
FuncRaise_StoresNone(p) ==
    /\ pc[p] = "func"
    /\ exc' = [exc EXCEPT ![p] = TRUE]
    /\ cache' = DictSet(cache, key[p], <<0, now>>)
    /\ pc' = [pc EXCEPT ![p] = "release"]
    /\ UNCHANGED <<background, expires, running, locks, running_lock,
                   key, block, inv, calls, now, result, path, seen, hadEntry>>
    /\ UNCHANGED hadFresh
    /\ UNCHANGED <<tdVars, restVars>>

\* A variant of FuncRaise: a failed computation drops the key's entry.
FuncRaise_Evicts(p) ==
    /\ pc[p] = "func"
    /\ exc' = [exc EXCEPT ![p] = TRUE]
    /\ cache' = [k \in DOMAIN cache \ {key[p]} |-> cache[k]]
    /\ pc' = [pc EXCEPT ![p] = "release"]
    /\ UNCHANGED <<background, expires, running, locks, running_lock,
                   key, block, inv, calls, now, result, path, seen, hadEntry>>
    /\ UNCHANGED hadFresh
    /\ UNCHANGED <<tdVars, restVars>>

\* self.func(*args, **keywords) raises.
FuncRaise(p) ==
    /\ pc[p] = "func"
    /\ exc' = [exc EXCEPT ![p] = TRUE]
    /\ pc' = [pc EXCEPT ![p] = "release"]
    /\ UNCHANGED <<background, expires, cache, running, locks, running_lock,
                   key, block, inv, calls, now, result, path, seen, hadEntry>>
    /\ UNCHANGED hadFresh
    /\ UNCHANGED <<tdVars, restVars>>

\* self.cache[key] = (<the value func returned>, time.time())
CacheAssign(p) ==
    /\ pc[p] = "assign"
    /\ cache' = DictSet(cache, key[p], <<inv[p], now>>)
    /\ pc' = [pc EXCEPT ![p] = "release"]
    /\ UNCHANGED <<background, expires, running, locks, running_lock, key,
                   block, exc, inv, calls, now, result, path, seen, hadEntry>>
    /\ UNCHANGED hadFresh
    /\ UNCHANGED <<tdVars, restVars>>

\* A variant of ReleaseLock: release after the assignment instead of in a
\* finally clause, so a failure leaves the lock held.
ReleaseLock_NoFinally(p) ==
    /\ pc[p] = "release"
    /\ locks' = IF exc[p] THEN locks
                ELSE [locks EXCEPT ![LockOf(key[p])] = Nobody]
    /\ pc' = [pc EXCEPT ![p] = IF exc[p] /\ p \in Callers
                                 THEN "idle" ELSE AfterUpdate(p)]
    /\ UNCHANGED <<background, expires, cache, running, running_lock, key,
                   block, exc, inv, calls, now, result, path, seen, hadEntry>>
    /\ UNCHANGED hadFresh
    /\ UNCHANGED <<tdVars, restVars>>

\* finally: self.running[key].release(); then update returns, or the
\* exception goes on: out of __call__ in a caller, ending the thread in a
\* background thread.
ReleaseLock(p) ==
    /\ pc[p] = "release"
    /\ locks' = [locks EXCEPT ![LockOf(key[p])] = Nobody]
    /\ pc' = [pc EXCEPT ![p] = IF exc[p] /\ p \in Callers
                                 THEN "idle" ELSE AfterUpdate(p)]
    /\ UNCHANGED <<background, expires, cache, running, running_lock, key,
                   block, exc, inv, calls, now, result, path, seen, hadEntry>>
    /\ UNCHANGED hadFresh
    /\ UNCHANGED <<tdVars, restVars>>

\* A variant of Return: the value read at the test is returned.
Return_Stale(p) ==
    /\ pc[p] = "return"
    /\ result' = [result EXCEPT ![p] = IF seen[p] # 0 THEN seen[p]
                                        ELSE cache[key[p]][1]]
    /\ pc' = [pc EXCEPT ![p] = "idle"]
    /\ UNCHANGED <<background, expires, cache, running, locks, running_lock,
                   key, block, exc, inv, calls, now, path, seen, hadEntry>>
    /\ UNCHANGED hadFresh
    /\ UNCHANGED <<tdVars, restVars>>

\* return self.cache[key][0]
Return(p) ==
    /\ pc[p] = "return"
    /\ result' = [result EXCEPT ![p] = cache[key[p]][1]]
    /\ pc' = [pc EXCEPT ![p] = "idle"]
    /\ UNCHANGED <<background, expires, cache, running, locks, running_lock,
                   key, block, exc, inv, calls, now, path, seen, hadEntry>>
    /\ UNCHANGED hadFresh
    /\ UNCHANGED <<tdVars, restVars>>

\* Time passes.
Tick ==
    /\ now < MaxTime
    /\ now' = now + 1
    /\ UNCHANGED <<background, expires, cache, running, locks, running_lock,
                   pc, key, block, exc, inv, calls, result, path, seen, hadEntry>>
    /\ UNCHANGED hadFresh
    /\ UNCHANGED <<tdVars, restVars>>

NextMemoize ==
    \/ \E p \in Callers, k \in Keys : Call(p, k)
    \/ \E p \in Procs : WithEnter(p)
    \/ \E p \in Procs : RunningGet(p)
    \/ \E p \in Procs : RunningSet(p)
    \/ \E p \in Procs : WithExit(p)
    \/ \E p \in Procs : TestMiss(p)
    \/ \E p \in Procs : TestExpiredBackground(p)
    \/ \E p \in Procs : TestExpiredSync(p)
    \/ \E p \in Procs : TestFresh(p)
    \/ \E p \in Procs : AcquireLock(p)
    \/ \E p \in Procs : AcquireFail(p)
    \/ \E p \in Procs : FuncReturn(p)
    \/ \E p \in Procs : FuncRaise(p)
    \/ \E p \in Procs : CacheAssign(p)
    \/ \E p \in Procs : ReleaseLock(p)
    \/ \E p \in Procs : Return(p)
    \/ Tick

SpecMemoize == InitMemoize /\ [][NextMemoize]_vars

\* The steps of thread p that wait for nothing: once it can take one it can
\* until it does. The wrapped callable terminates: it returns or raises.
Step(p) ==
    \/ RunningGet(p) \/ RunningSet(p) \/ WithExit(p)
    \/ TestMiss(p) \/ TestExpiredBackground(p) \/ TestExpiredSync(p)
    \/ TestFresh(p)
    \/ AcquireFail(p)
    \/ FuncReturn(p) \/ FuncRaise(p)
    \/ CacheAssign(p) \/ ReleaseLock(p) \/ Return(p)

\* Every running thread is scheduled: a step it can take until it takes it,
\* the acquire of a key's lock that stays free included, is taken; and a
\* caller waiting for the lock-creation lock, which other callers take and
\* release without end, gets it. Nothing obliges a thread to call the
\* Memoize instance, nor the clock to advance.
FairMemoize ==
    /\ \A p \in Procs : WF_vars(Step(p) \/ AcquireLock(p))
    /\ \A p \in Callers : SF_vars(WithEnter(p))

\* The calls of the fair specification all have the same arguments.
FairKeys == {"a"}

NextMemoizeFair ==
    \/ \E p \in Callers, k \in FairKeys : Call(p, k)
    \/ \E p \in Procs : WithEnter(p)
    \/ \E p \in Procs : RunningGet(p)
    \/ \E p \in Procs : RunningSet(p)
    \/ \E p \in Procs : WithExit(p)
    \/ \E p \in Procs : TestMiss(p)
    \/ \E p \in Procs : TestExpiredBackground(p)
    \/ \E p \in Procs : TestExpiredSync(p)
    \/ \E p \in Procs : TestFresh(p)
    \/ \E p \in Procs : AcquireLock(p)
    \/ \E p \in Procs : AcquireFail(p)
    \/ \E p \in Procs : FuncReturn(p)
    \/ \E p \in Procs : FuncRaise(p)
    \/ \E p \in Procs : CacheAssign(p)
    \/ \E p \in Procs : ReleaseLock(p)
    \/ \E p \in Procs : Return(p)
    \/ Tick

SpecMemoizeFair == InitMemoize /\ [][NextMemoizeFair]_vars /\ FairMemoize

\* ---------------------------------------------------- ThreadedDict: helpers

\* d with key k removed: del d[k]
DictDel(d, k) == [x \in DOMAIN d \ {k} |-> d[x]]

\* d.update(m)
DictUpdate(d, m) ==
    [x \in DOMAIN d \cup DOMAIN m |-> IF x \in DOMAIN m THEN m[x] ELSE d[x]]

\* The mappings an update call is given.
Mappings ==
    {m \in UNION {[ks -> Vals] : ks \in SUBSET TKeys} :
        \A k \in DOMAIN m : <<k, m[k]>> \in Items}

\* A variant of RegistryAdd: the registry is rebound to a new set.
RegistryAdd_Rebinds(reg, d) == {d}

\* ThreadedDict._instances.add(self)
\* (__del__, lines 73-74, removes an instance when the last reference to it
\* goes; _instances itself refers to every registered instance, so a
\* registered instance is never finalized and no step of the model removes
\* one. set.add and list(set) are single operations of the interpreter.)
RegistryAdd(reg, d) == reg \cup {d}

\* The instances whose constructor has returned: the handles threads share.
Constructed == allocated \ {tinst[t] : t \in {u \in TThreads : tpc[u] = "init"}}

\* self.__dict__ of instance d in thread t. threading.local gives a thread
\* that has not used d yet an empty dict of its own.
LocalDict(d, t) == IF t \in DOMAIN dicts[d] THEN dicts[d][t] ELSE <<>>

\* The registry after thread t uses instance d: the first use of d in a
\* thread makes threading.local call __init__ in that thread.
Touched(d, t) ==
    IF t \in DOMAIN dicts[d] THEN instances ELSE RegistryAdd(instances, d)

\* A variant of WithLocalDict: one __dict__ for all threads, as of a class
\* that does not derive from threading.local.
WithLocalDict_Shared(d, t, new) ==
    [dicts EXCEPT ![d] = [u \in DOMAIN dicts[d] \cup {t} |-> new]]

\* dicts after thread t's __dict__ of instance d has become `new`.
WithLocalDict(d, t, new) == [dicts EXCEPT ![d] = DictSet(dicts[d], t, new)]

\* A variant of Cleared: clear empties the dict of every thread.
Cleared_EveryThread(d, t) ==
    [dicts EXCEPT ![d] = [u \in DOMAIN dicts[d] \cup {t} |-> <<>>]]

\* dicts after self.__dict__.clear() in thread t.
Cleared(d, t) == WithLocalDict(d, t, <<>>)

\* __getitem__: self.__dict__[key], 0 standing for the KeyError.
GetItem(d, t, k) ==
    IF k \in DOMAIN LocalDict(d, t) THEN LocalDict(d, t)[k] ELSE 0

\* own after thread t stored the values of mapping m in instance d.
Stored(d, t, m) ==
    [own EXCEPT ![d][t] =
        [k \in TKeys |-> IF k \in DOMAIN m THEN m[k] ELSE own[d][t][k]]]

\* own after thread t removed the keys ks from instance d.
Removed(d, t, ks) ==
    [own EXCEPT ![d][t] =
        [k \in TKeys |-> IF k \in ks THEN 0 ELSE own[d][t][k]]]

\* ---------------------------------------------------- ThreadedDict: actions

\* No Memoize call has been made.
MemoizeUnused ==
    /\ background = TRUE
    /\ expires = 0
    /\ cache = <<>>
    /\ running = <<>>
    /\ locks = <<>>
    /\ running_lock = Nobody
    /\ pc = [p \in Procs |-> IF p \in Workers THEN "unstarted" ELSE "idle"]
    /\ key = [p \in Procs |-> "a"]
    /\ block = [p \in Procs |-> FALSE]
    /\ exc = [p \in Procs |-> FALSE]
    /\ inv = [p \in Procs |-> 0]
    /\ calls = 0
    /\ now = 0
    /\ result = [p \in Callers |-> 0]
    /\ path = [p \in Callers |-> "none"]
    /\ seen = [p \in Callers |-> 0]
    /\ hadEntry = [p \in Callers |-> FALSE]
    /\ hadFresh = [p \in Callers |-> FALSE]

InitThreadedDict ==
    /\ InitThreadedDictState
    /\ InitRest
    /\ MemoizeUnused

\* ThreadedDict(): the object is created, with the dict of this thread.
New(t, d) ==
    /\ tpc[t] = "idle"
    /\ d \notin allocated
    /\ allocated' = allocated \cup {d}
    /\ dicts' = WithLocalDict(d, t, <<>>)
    /\ tpc' = [tpc EXCEPT ![t] = "init"]
    /\ tinst' = [tinst EXCEPT ![t] = d]
    /\ raised' = [raised EXCEPT ![t] = FALSE]
    /\ UNCHANGED <<instances, snapshot, own>>
    /\ UNCHANGED <<memoVars, restVars>>

\* __init__: ThreadedDict._instances.add(self); the constructor returns.
Init__(t) ==
    /\ tpc[t] = "init"
    /\ instances' = RegistryAdd(instances, tinst[t])
    /\ tpc' = [tpc EXCEPT ![t] = "idle"]
    /\ UNCHANGED <<allocated, dicts, tinst, snapshot, raised, own>>
    /\ UNCHANGED <<memoVars, restVars>>

\* __getitem__: value = d[k]
GetItemCall(t, d, k) ==
    /\ tpc[t] = "idle"
    /\ d \in Constructed
    /\ instances' = Touched(d, t)
    /\ dicts' = WithLocalDict(d, t, LocalDict(d, t))
    /\ raised' = [raised EXCEPT ![t] = GetItem(d, t, k) = 0]
    /\ UNCHANGED <<allocated, tpc, tinst, snapshot, own>>
    /\ UNCHANGED <<memoVars, restVars>>

\* __setitem__: d[k] = v
SetItem(t, d, k, v) ==
    /\ tpc[t] = "idle"
    /\ d \in Constructed
    /\ instances' = Touched(d, t)
    /\ dicts' = WithLocalDict(d, t, DictSet(LocalDict(d, t), k, v))
    /\ own' = Stored(d, t, [x \in {k} |-> v])
    /\ raised' = [raised EXCEPT ![t] = FALSE]
    /\ UNCHANGED <<allocated, tpc, tinst, snapshot>>
    /\ UNCHANGED <<memoVars, restVars>>

\* __delitem__: del d[k]
DelItem(t, d, k) ==
    /\ tpc[t] = "idle"
    /\ d \in Constructed
    /\ instances' = Touched(d, t)
    /\ dicts' = WithLocalDict(d, t, DictDel(LocalDict(d, t), k))
    /\ own' = Removed(d, t, {k})
    /\ raised' = [raised EXCEPT ![t] = k \notin DOMAIN LocalDict(d, t)]
    /\ UNCHANGED <<allocated, tpc, tinst, snapshot>>
    /\ UNCHANGED <<memoVars, restVars>>

\* pop: d.pop(k) or d.pop(k, default)
Pop(t, d, k, withDefault) ==
    /\ tpc[t] = "idle"
    /\ d \in Constructed
    /\ instances' = Touched(d, t)
    /\ dicts' = WithLocalDict(d, t, DictDel(LocalDict(d, t), k))
    /\ own' = Removed(d, t, {k})
    /\ raised' = [raised EXCEPT
                    ![t] = k \notin DOMAIN LocalDict(d, t) /\ ~withDefault]
    /\ UNCHANGED <<allocated, tpc, tinst, snapshot>>
    /\ UNCHANGED <<memoVars, restVars>>

\* setdefault: d.setdefault(k, v)
SetDefault(t, d, k, v) ==
    /\ tpc[t] = "idle"
    /\ d \in Constructed
    /\ instances' = Touched(d, t)
    /\ dicts' = WithLocalDict(d, t,
                    IF k \in DOMAIN LocalDict(d, t) THEN LocalDict(d, t)
                    ELSE DictSet(LocalDict(d, t), k, v))
    /\ own' = IF own[d][t][k] # 0 THEN own
              ELSE Stored(d, t, [x \in {k} |-> v])
    /\ raised' = [raised EXCEPT ![t] = FALSE]
    /\ UNCHANGED <<allocated, tpc, tinst, snapshot>>
    /\ UNCHANGED <<memoVars, restVars>>

\* update: d.update(m)
Update(t, d, m) ==
    /\ tpc[t] = "idle"
    /\ d \in Constructed
    /\ instances' = Touched(d, t)
    /\ dicts' = WithLocalDict(d, t, DictUpdate(LocalDict(d, t), m))
    /\ own' = Stored(d, t, m)
    /\ raised' = [raised EXCEPT ![t] = FALSE]
    /\ UNCHANGED <<allocated, tpc, tinst, snapshot>>
    /\ UNCHANGED <<memoVars, restVars>>

\* clear: d.clear()
Clear(t, d) ==
    /\ tpc[t] = "idle"
    /\ d \in Constructed
    /\ instances' = Touched(d, t)
    /\ dicts' = Cleared(d, t)
    /\ own' = Removed(d, t, TKeys)
    /\ raised' = [raised EXCEPT ![t] = FALSE]
    /\ UNCHANGED <<allocated, tpc, tinst, snapshot>>
    /\ UNCHANGED <<memoVars, restVars>>

\* clear_all: list(ThreadedDict._instances)
ClearAllList(t) ==
    /\ tpc[t] = "idle"
    /\ snapshot' = [snapshot EXCEPT ![t] = instances]
    /\ tpc' = [tpc EXCEPT ![t] = "clear_all"]
    /\ raised' = [raised EXCEPT ![t] = FALSE]
    /\ UNCHANGED <<instances, allocated, dicts, tinst, own>>
    /\ UNCHANGED <<memoVars, restVars>>

\* clear_all: for t in <the list>: t.clear()
ClearAllLoop(t) ==
    /\ tpc[t] = "clear_all"
    /\ \E d \in snapshot[t] :
        /\ instances' = Touched(d, t)
        /\ dicts' = Cleared(d, t)
        /\ own' = Removed(d, t, TKeys)
        /\ snapshot' = [snapshot EXCEPT ![t] = snapshot[t] \ {d}]
    /\ UNCHANGED <<allocated, tpc, tinst, raised>>
    /\ UNCHANGED <<memoVars, restVars>>

\* clear_all: the loop is over.
ClearAllReturn(t) ==
    /\ tpc[t] = "clear_all"
    /\ snapshot[t] = {}
    /\ tpc' = [tpc EXCEPT ![t] = "idle"]
    /\ UNCHANGED <<instances, allocated, dicts, tinst, snapshot, raised, own>>
    /\ UNCHANGED <<memoVars, restVars>>

NextThreadedDict ==
    \/ \E t \in TThreads, d \in Insts : New(t, d)
    \/ \E t \in TThreads : Init__(t)
    \/ \E t \in TThreads, d \in Insts, k \in TKeys : GetItemCall(t, d, k)
    \/ \E t \in TThreads, d \in Insts, i \in Items : SetItem(t, d, i[1], i[2])
    \/ \E t \in TThreads, d \in Insts, k \in TKeys : DelItem(t, d, k)
    \/ \E t \in TThreads, d \in Insts, k \in TKeys, b \in BOOLEAN :
            Pop(t, d, k, b)
    \/ \E t \in TThreads, d \in Insts, i \in Items :
            SetDefault(t, d, i[1], i[2])
    \/ \E t \in TThreads, d \in Insts, m \in Mappings : Update(t, d, m)
    \/ \E t \in TThreads, d \in Insts : Clear(t, d)
    \/ \E t \in TThreads : ClearAllList(t)
    \/ \E t \in TThreads : ClearAllLoop(t)
    \/ \E t \in TThreads : ClearAllReturn(t)

SpecThreadedDict == InitThreadedDict /\ [][NextThreadedDict]_vars

\* ------------------------------------------------------- safestr and header

\* Texts are sequences of characters. The objects handed to safestr: a text,
\* a number, or an iterator over texts.
Str(t) == [kind |-> "str", text |-> t, num |-> 0, items |-> <<>>]
Num(n) == [kind |-> "int", text |-> <<>>, num |-> n, items |-> <<>>]
Iter(ts) == [kind |-> "iter", text |-> <<>>, num |-> 0, items |-> ts]

\* str(n) of a number that is not negative.
RECURSIVE IntStr(_)
IntStr(n) ==
    LET digit == <<"0", "1", "2", "3", "4", "5", "6", "7", "8", "9">>
    IN IF n < 10 THEN <<digit[n + 1]>>
       ELSE Append(IntStr(n \div 10), digit[(n % 10) + 1])

\* safestr(obj): an iterator (always true as a condition) gives the list of
\* its items, each converted; everything else gives str(obj).
safestr(obj) ==
    IF obj.kind = "iter"
    THEN [kind |-> "list", text |-> <<>>, items |-> obj.items]
    ELSE [kind |-> "str",
          text |-> IF obj.kind = "int" THEN IntStr(obj.num) ELSE obj.text,
          items |-> <<>>]

\* str.lower()
LowerChar(c) == CASE c = "A" -> "a" [] c = "B" -> "b" [] OTHER -> c
lower(t) == [i \in DOMAIN t |-> LowerChar(t[i])]

\* c in t, for a character c and a text t
In(c, t) == \E i \in DOMAIN t : t[i] = c

\* A variant of Invalid: only the header name is checked.
Invalid_NameOnly(h, v) == In("\n", h) \/ In("\r", h)

\* "\n" in hdr or "\r" in hdr or "\n" in value or "\r" in value
Invalid(h, v) == In("\n", h) \/ In("\r", h) \/ In("\n", v) \/ In("\r", v)

\* A variant of Exists: the names are compared as they are.
Exists_CaseSensitive(hs, h) == \E i \in DOMAIN hs : hs[i][1] = h

\* for h, v in ctx.headers: if h.lower() == hdr.lower(): return
Exists(hs, h) == \E i \in DOMAIN hs : lower(hs[i][1]) = lower(h)

\* The arguments header is called with: names and values are texts or
\* numbers; unique is True, False or the number 1.
HdrArgs == {Str(<<"a">>), Str(<<"A">>), Str(<<"b">>), Str(<<"a", "\n">>),
            Str(<<"\r">>), Num(1)}
ValueArgs == {Str(<<"v">>), Str(<<"w">>), Str(<<"v", "\n">>), Num(2)}
UniqueArgs == {"True", "False", "1"}

\* header(hdr, value, unique) in thread t.
Header(t, hdr, value, unique) ==
    LET h == safestr(hdr).text
        v == safestr(value).text
        bad == Invalid(h, v)
        isTrue == unique = "True"
        dup == isTrue /\ Exists(headers[t], h)
        appends == ~bad /\ ~dup
    IN  /\ appends => Len(headers[t]) < MaxHeaders
        /\ headers' = IF appends
                       THEN [headers EXCEPT ![t] = Append(@, <<h, v>>)]
                       ELSE headers
        /\ hlast' = [hlast EXCEPT ![t] =
                        [hdr |-> h, value |-> v, unique |-> isTrue,
                         err |-> IF bad THEN "ValueError" ELSE NoError]]
        /\ allUnique' = [allUnique EXCEPT ![t] = @ /\ isTrue /\ ~bad]
        /\ firsts' = [firsts EXCEPT ![t] =
                        IF ~(allUnique[t] /\ isTrue /\ ~bad) THEN <<>>
                        ELSE IF \E i \in DOMAIN @ : @[i][1] = lower(h) THEN @
                        ELSE Append(@, <<lower(h), v>>)]
        /\ UNCHANGED <<memoVars, tdVars, stoVars, htmlVars>>

\* The module is imported (ctx = threadeddict()) and ctx.headers is an empty
\* list in each thread.
InitHeader == InitThreadedDict

NextHeader ==
    \E t \in HThreads, hdr \in HdrArgs, value \in ValueArgs,
       unique \in UniqueArgs : Header(t, hdr, value, unique)

SpecHeader == InitHeader /\ [][NextHeader]_vars

\* ------------------------------------------------------------------ Storage

\* The keys and values used with the Storage object o. "items" is also the
\* name of a method o inherits from dict.
SKeys == {"a", "b", "items"}
SVals == {1, 2}

\* The names ordinary attribute lookup finds on a Storage object: the
\* attributes of dict and of the class. __getattr__ is called only for the
\* names that lookup does not find; __setattr__ and __delattr__ are called
\* for every name.
ClassAttrs == {"items"}

\* The outcome of a read: a value, a bound method, or an exception.
Outcome(kind, val, ekey) == [kind |-> kind, val |-> val, ekey |-> ekey]

\* self[key]
ItemRead(d, k) ==
    IF k \in DOMAIN d THEN Outcome("value", d[k], "")
    ELSE Outcome("KeyError", 0, k)

\* __getattr__: try: return self[key]
\*              except KeyError as k: raise AttributeError(k)
getattr(d, k) ==
    IF ItemRead(d, k).kind = "KeyError"
    THEN Outcome("AttributeError", 0, ItemRead(d, k).ekey)
    ELSE ItemRead(d, k)

\* o.key
AttrRead(d, k) ==
    IF k \in ClassAttrs THEN Outcome("method", 0, "") ELSE getattr(d, k)

\* The record of an operation on o.
Done(op, k, r) ==
    [op |-> op, key |-> k, absent |-> k \notin DOMAIN store,
     kind |-> r.kind, val |-> r.val, ekey |-> r.ekey]

\* o.k
StorageGetAttr(k) ==
    /\ slast' = Done("getattr", k, AttrRead(store, k))
    /\ UNCHANGED store
    /\ UNCHANGED <<memoVars, tdVars, hdrVars, htmlVars>>

\* o[k]
StorageGetItem(k) ==
    /\ slast' = Done("getitem", k, ItemRead(store, k))
    /\ UNCHANGED store
    /\ UNCHANGED <<memoVars, tdVars, hdrVars, htmlVars>>

\* o.k = v: __setattr__, self[key] = value
StorageSetAttr(k, v) ==
    /\ store' = DictSet(store, k, v)
    /\ slast' = Done("setattr", k, Outcome("none", v, ""))
    /\ UNCHANGED <<memoVars, tdVars, hdrVars, htmlVars>>

\* o[k] = v
StorageSetItem(k, v) ==
    /\ store' = DictSet(store, k, v)
    /\ slast' = Done("setitem", k, Outcome("none", v, ""))
    /\ UNCHANGED <<memoVars, tdVars, hdrVars, htmlVars>>

\* del o.k: __delattr__, try: del self[key]
\*                       except KeyError as k: raise AttributeError(k)
StorageDelAttr(k) ==
    /\ store' = IF k \in DOMAIN store THEN DictDel(store, k) ELSE store
    /\ slast' = Done("delattr", k,
                     IF k \in DOMAIN store THEN Outcome("none", 0, "")
                     ELSE Outcome("AttributeError", 0, k))
    /\ UNCHANGED <<memoVars, tdVars, hdrVars, htmlVars>>

\* del o[k]
StorageDelItem(k) ==
    /\ store' = IF k \in DOMAIN store THEN DictDel(store, k) ELSE store
    /\ slast' = Done("delitem", k,
                     IF k \in DOMAIN store THEN Outcome("none", 0, "")
                     ELSE Outcome("KeyError", 0, k))
    /\ UNCHANGED <<memoVars, tdVars, hdrVars, htmlVars>>

\* o = Storage()
InitStorage == InitThreadedDict

NextStorage ==
    \/ \E k \in SKeys : StorageGetAttr(k)
    \/ \E k \in SKeys : StorageGetItem(k)
    \/ \E k \in SKeys, v \in SVals : StorageSetAttr(k, v)
    \/ \E k \in SKeys, v \in SVals : StorageSetItem(k, v)
    \/ \E k \in SKeys : StorageDelAttr(k)
    \/ \E k \in SKeys : StorageDelItem(k)

SpecStorage == InitStorage /\ [][NextStorage]_vars

\* ---------------------------------------------------------------- htmlquote

\* The characters of the texts given to htmlquote, and the texts.
HtmlChars == {"&", "<", ">", "'", "\"", "a", ";"}
Texts == UNION {[1..n -> HtmlChars] : n \in 0..MaxLen}

\* text.replace(old, new), for a one-character old
RECURSIVE replace(_, _, _)
replace(t, old, new) ==
    IF t = <<>> THEN <<>>
    ELSE (IF Head(t) = old THEN new ELSE <<Head(t)>>)
            \o replace(Tail(t), old, new)

\* The replacement texts.
amp == <<"&", "a", "m", "p", ";">>
lt == <<"&", "l", "t", ";">>
gt == <<"&", "g", "t", ";">>
apos == <<"&", "#", "3", "9", ";">>
quot == <<"&", "q", "u", "o", "t", ";">>

\* A variant of htmlquote: the ampersand is replaced last.
htmlquote_AmpersandLast(t) ==
    replace(replace(replace(replace(replace(t, "<", lt), ">", gt),
                            "'", apos), "\"", quot), "&", amp)

\* htmlquote(text): the five replacements, in the order of lines 204-208
htmlquote(t) ==
    replace(replace(replace(replace(replace(t, "&", amp), "<", lt),
                            ">", gt), "'", apos), "\"", quot)

\* htmlquote is called with some text.
InitHtmlquote ==
    /\ text \in Texts
    /\ quoted = <<>>
    /\ qdone = FALSE
    /\ InitHeaderState
    /\ InitStorageState
    /\ InitThreadedDictState
    /\ MemoizeUnused

\* The call returns.
Htmlquote ==
    /\ ~qdone
    /\ quoted' = htmlquote(text)
    /\ qdone' = TRUE
    /\ UNCHANGED text
    /\ UNCHANGED <<memoVars, tdVars, hdrVars, stoVars>>

NextHtmlquote == Htmlquote

SpecHtmlquote == InitHtmlquote /\ [][NextHtmlquote]_vars

\* ------------------------------------------------- ThreadedDict: the claims

\* C6: on every instance, what a thread reads under a key is the value that
\* thread itself last stored there, or nothing if it stored none or removed
\* it, whatever the other threads did to the same key of the same instance.
C6_ThreadReadsOwnWrites ==
    \A d \in Insts, t \in TThreads, k \in TKeys :
        GetItem(d, t, k) = own[d][t][k]

\* Two threads hold different values under one key of one instance, and a
\* key one of them has set is still unset for the other.
C6_Witness ==
    \E d \in Insts, t, u \in TThreads :
        /\ GetItem(d, t, "x") = 1 /\ GetItem(d, u, "x") = 2
        /\ GetItem(d, t, "y") = 1 /\ GetItem(d, u, "y") = 0

\* C7: clear_all in thread t takes every registered instance, changes no
\* other thread's data in any instance and raises nothing, and when it
\* returns thread t's data is empty in every instance that exists.
C7_ClearAllClearsOnlyCaller ==
    [][\A t \in TThreads :
        /\ (tpc[t] = "idle" /\ tpc'[t] = "clear_all")
            => snapshot'[t] = instances
        /\ (tpc[t] = "clear_all"
                /\ (snapshot'[t] # snapshot[t] \/ tpc'[t] # "clear_all"))
            => /\ ~raised'[t]
               /\ \A d \in Insts, u \in TThreads \ {t}, k \in TKeys :
                    GetItem(d, u, k)' = GetItem(d, u, k)
        /\ (tpc[t] = "clear_all" /\ tpc'[t] = "idle")
            => \A d \in Insts, k \in TKeys : GetItem(d, t, k)' = 0
      ]_vars

\* A thread in clear_all has emptied its data in the first instance of its
\* list and still has its data in the second, while the other thread holds
\* its values in both instances.
C7_Witness ==
    \E t, u \in TThreads :
        /\ t # u /\ tpc[t] = "clear_all" /\ snapshot[t] = {"d2"}
        /\ t \in DOMAIN dicts["d1"] /\ dicts["d1"][t] = <<>>
        /\ GetItem("d2", t, "x") = 1
        /\ \A d \in Insts : GetItem(d, u, "x") = 2 /\ GetItem(d, u, "y") = 1

InFlight(k) == {p \in Procs : pc[p] = "func" /\ key[p] = k}

\* C1: for every key, in every reachable state, at most one invocation of
\* the wrapped callable for that key is in flight, whoever the contenders
\* are (cache-miss callers, synchronous recomputations, background threads).
C1_OneInFlightPerKey == \A k \in Keys : Cardinality(InFlight(k)) <= 1

\* A background thread runs the callable for a key while a cache-miss caller
\* of the same key is blocked on the key's lock.
C1_Witness ==
    \E w \in Workers, q \in Callers :
        /\ key[w] = key[q]
        /\ pc[w] = "func" /\ pc[q] = "acquire" /\ block[q]

\* C2 as stated: in background mode a call that found its entry expired
\* returns the value that was cached when it detected the expiry.
C2_ReturnsValueSeenAtExpiry ==
    \A p \in Callers :
        (background /\ path[p] = "expired" /\ pc[p] = "idle")
            => result[p] = seen[p]

\* C2 amended: in background mode a call that found its entry expired hands
\* the recomputation to another thread and never acquires the key's lock or
\* invokes the callable itself; it returns a value read from the cache at its
\* return: the stale value, or a newer one that a recomputation has already
\* stored (never the value of an invocation still running).
C2_ReturnsStaleOrStoredValue ==
    \A p \in Callers :
        (background /\ path[p] = "expired") =>
            /\ pc[p] \in {"return", "idle"}
            /\ inv[p] = 0
            /\ ~exc[p]
            /\ pc[p] = "idle" =>
                /\ result[p] \in seen[p]..calls
                /\ \A q \in Procs :
                    (inv[q] = result[p]) => pc[q] \notin {"func", "assign"}

\* The call has returned the stale value while the thread it started is
\* still running the wrapped callable.
C2_Witness ==
    \E p \in Callers, w \in Workers :
        /\ background /\ path[p] = "expired" /\ pc[p] = "idle"
        /\ result[p] = seen[p]
        /\ pc[w] = "func" /\ key[w] = key[p]

\* C3: a call for a key that had a cached entry when it began never does a
\* blocking acquire; when its acquire fails it goes straight to the return
\* without invoking the callable or touching a lock; and it returns the value
\* cached at that moment. Background threads acquire without blocking too.
C3_NeverWaitsOnKeyLock ==
    [][/\ \A p \in Callers : hadEntry[p] =>
            /\ ~(pc'[p] = "acquire" /\ block'[p])
            /\ (pc[p] = "acquire" /\ Holder(key[p]) \notin {Nobody, p}
                    /\ pc'[p] # "acquire")
                => (pc'[p] = "return" /\ calls' = calls /\ inv'[p] = 0
                        /\ locks' = locks /\ cache' = cache)
            /\ (pc[p] = "return" /\ pc'[p] = "idle")
                => result'[p] = cache[key[p]][1]
       /\ \A w \in Workers : pc'[w] = "acquire" => ~block'[w]
      ]_vars

\* Synchronous mode: a call found its entry expired while another thread was
\* computing the key, skipped the recomputation and returned the cached value.
C3_Witness ==
    \E p \in Callers, q \in Procs :
        /\ ~background /\ hadEntry[p] /\ path[p] = "expired"
        /\ pc[p] = "idle" /\ inv[p] = 0
        /\ result[p] = cache[key[p]][1]
        /\ pc[q] = "func" /\ key[q] = key[p]

\* C4: when the callable fails in a cache-miss computation, nothing is stored
\* (the cache is unchanged by the failure and by the release, and never holds
\* the value of a failed invocation), the failure reaches the caller, the
\* key's lock is free afterwards, and a call that then finds no entry does a
\* blocking acquire and invokes the callable again.
C4_FailedMissLeavesNoEntry ==
    [][/\ \A p \in Callers : path[p] = "miss" =>
            /\ (pc[p] = "func" /\ pc'[p] = "release" /\ exc'[p])
                => cache' = cache
            /\ (pc[p] = "release" /\ exc[p] /\ pc'[p] # "release")
                => /\ pc'[p] = "idle" /\ exc'[p] /\ result'[p] = 0
                   /\ cache' = cache
                   /\ locks'[running'[key[p]]] = Nobody
       /\ \A p \in Callers :
            /\ (pc[p] = "test" /\ key[p] \notin DOMAIN cache /\ pc'[p] # "test")
                => (pc'[p] = "acquire" /\ block'[p])
            /\ (pc[p] = "acquire" /\ block[p] /\ pc'[p] # "acquire")
                => (pc'[p] = "func" /\ calls' = calls + 1)
       /\ \A p \in Procs : exc'[p] =>
            \A k \in DOMAIN cache' : cache'[k][1] # inv'[p]
      ]_vars

\* A cache-miss call has raised, the key still has no entry, and a later
\* call for the key is running the callable again.
C4_Witness ==
    \E p, q \in Callers :
        /\ p # q /\ key[q] = key[p] /\ key[p] \notin DOMAIN cache
        /\ pc[p] = "idle" /\ exc[p] /\ result[p] = 0 /\ path[p] = "miss"
        /\ pc[q] = "func" /\ inv[q] > inv[p]

\* C5: when the callable fails in a background thread, no caller's position,
\* result or exception state changes, the cache is unchanged, the thread ends
\* and the key's lock is free; the call that started the thread neither
\* raises nor waits.
C5_BackgroundFailureIsolated ==
    [][/\ \A w \in Workers :
            /\ (pc[w] = "func" /\ pc'[w] = "release" /\ exc'[w])
                => /\ cache' = cache /\ result' = result
                   /\ \A c \in Callers : pc'[c] = pc[c] /\ exc'[c] = exc[c]
            /\ (pc[w] = "release" /\ exc[w] /\ pc'[w] # "release")
                => /\ pc'[w] = "unstarted"
                   /\ cache' = cache /\ result' = result
                   /\ \A c \in Callers : pc'[c] = pc[c] /\ exc'[c] = exc[c]
                   /\ locks'[running'[key[w]]] = Nobody
       /\ \A c \in Callers : (background /\ path'[c] = "expired")
            => (~exc'[c] /\ pc'[c] \in {"return", "idle"})
      ]_vars

\* The background thread has ended with the failure; its caller has returned
\* the value that is still cached, and the key's lock is free.
C5_Witness ==
    \E w \in Workers, c \in Callers :
        /\ background /\ pc[w] = "unstarted" /\ exc[w]
        /\ key[c] = key[w] /\ path[c] = "expired" /\ pc[c] = "idle"
        /\ result[c] = seen[c] /\ cache[key[c]][1] = seen[c]
        /\ Holder(key[w]) = Nobody

\* C9: the lock-creation lock is held only inside the with block, never
\* while the callable runs; distinct keys have distinct locks, and a key's
\* lock is held only by a thread working on that key, so the only
\* computation a caller can wait for is one of its own key.
C9_NoWaitOnOtherKey ==
    /\ \A p \in Procs :
        running_lock = p => pc[p] \in {"get", "set", "with_exit"}
    /\ \A i \in DOMAIN locks :
        locks[i] # Nobody =>
            /\ pc[locks[i]] \in {"func", "assign", "release"}
            /\ running[key[locks[i]]] = i
    /\ \A p \in Procs :
        (pc[p] = "acquire" /\ Holder(key[p]) # Nobody)
            => key[Holder(key[p])] = key[p]

\* Two threads run the callable for two different keys at the same time,
\* the second having started while the first was already running.
C9_Witness ==
    \E p, q \in Procs :
        /\ key[p] # key[q] /\ pc[p] = "func" /\ pc[q] = "func"
        /\ inv[q] = inv[p] + 1

\* C10 as stated: in synchronous mode a call that found its entry expired
\* recomputes and returns a freshly computed value.
C10_ExpiredSyncCallRecomputes ==
    \A p \in Callers :
        (~background /\ path[p] = "expired" /\ pc[p] = "idle" /\ ~exc[p])
            => (inv[p] > 0 /\ result[p] > seen[p])

\* C10 amended: in synchronous mode a call that found its entry expired and
\* got the key's lock returns only after its own recomputation is stored, and
\* returns that value or a later one; a call that found the lock held returns
\* a cached value at least as new as the one it saw; a call that found the
\* entry unexpired never invokes the callable and returns a cached value at
\* least as new as the one it saw.
C10_SyncRecomputeWhenLockFree ==
    \A p \in Callers : ~background =>
        /\ (path[p] = "expired" /\ inv[p] > 0 /\ pc[p] = "return")
            => cache[key[p]][1] >= inv[p]
        /\ (path[p] = "expired" /\ inv[p] > 0 /\ pc[p] = "idle" /\ ~exc[p])
            => (result[p] >= inv[p] /\ result[p] > seen[p])
        /\ (path[p] = "expired" /\ inv[p] = 0 /\ pc[p] = "idle")
            => (~exc[p] /\ result[p] >= seen[p])
        /\ path[p] = "fresh"
            => /\ inv[p] = 0 /\ pc[p] \in {"return", "idle"}
               /\ pc[p] = "idle" => (~exc[p] /\ result[p] >= seen[p])

\* A synchronous call recomputed an expired entry and returned its own value.
C10_Witness ==
    \E p \in Callers :
        /\ ~background /\ path[p] = "expired" /\ pc[p] = "idle"
        /\ inv[p] > 0 /\ result[p] = inv[p] /\ result[p] > seen[p]

\* The positions of a thread inside update.
InUpdate == {"acquire", "func", "assign", "release"}

\* C11 as stated: a call that began when its key had an entry that was not
\* expired does not enter update: from its test it goes to the return, and it
\* acquires no key lock and does not invoke the callable.
C11_FreshAtCallNeverUpdates ==
    [][\A p \in Callers :
            (hadFresh[p] /\ pc[p] = "test" /\ pc'[p] # "test") =>
                (pc'[p] = "return" /\ inv'[p] = 0 /\ locks' = locks)
      ]_vars

\* C11 amended: a call whose test at lines 355-357 finds an entry that is not
\* expired, and, when no expiry is configured, every call that began when its
\* key had an entry, never enters update (no acquire of the key's lock, no
\* invocation of the callable, no failure) and returns the value cached at
\* its return; with no expiry, a step that invokes the callable for a key is
\* a step of a call that began before the key had an entry.
C11_FreshAtTestNeverUpdates ==
    [][/\ \A p \in Callers :
            (path'[p] = "fresh" \/ (expires = 0 /\ hadEntry'[p])) =>
                /\ pc'[p] \notin InUpdate
                /\ inv'[p] = 0 /\ ~exc'[p]
                /\ \A i \in DOMAIN locks' : locks'[i] # p
                /\ (pc[p] = "return" /\ pc'[p] = "idle")
                    => result'[p] = cache[key[p]][1]
       /\ (expires = 0 /\ calls' # calls) =>
            \E p \in Callers :
                pc[p] = "acquire" /\ pc'[p] = "func" /\ ~hadEntry[p]
      ]_vars

\* No expiry is configured: long after the only invocation of the callable
\* stored the entry, a call that began with the entry there has returned it.
C11_Witness ==
    \E p \in Callers :
        /\ expires = 0 /\ calls = 1 /\ now >= 2
        /\ hadEntry[p] /\ path[p] = "fresh" /\ pc[p] = "idle"
        /\ result[p] = 1 /\ cache[key[p]] = <<1, 0>>

\* C12: a caller that found no entry for its key leaves the acquire of
\* update only by getting the key's lock, when no computation of the key is
\* in flight, and then invokes the callable itself, whether or not an entry
\* has been stored meanwhile; while another thread holds the key's lock it
\* stays blocked; if it returns, it returns a value stored by its own
\* invocation or a later one; and a caller blocked while another caller's
\* computation of the key is in flight does get to invoke the callable.
C12_MissCallerWaitsThenInvokes ==
    /\ [][\A p \in Callers : (path[p] = "miss" /\ pc[p] = "acquire") =>
            /\ block[p]
            /\ Holder(key[p]) # Nobody => pc'[p] = "acquire"
            /\ pc'[p] # "acquire" =>
                /\ InFlight(key[p]) = {}
                /\ pc'[p] = "func"
                /\ calls' = calls + 1 /\ inv'[p] = calls'
                     ]_vars
    /\ [](\A p \in Callers :
            (path[p] = "miss" /\ pc[p] \in {"return", "idle"} /\ ~exc[p]) =>
                /\ inv[p] > 0
                /\ cache[key[p]][1] >= inv[p]
                /\ pc[p] = "idle" => result[p] >= inv[p])
    /\ \A p \in Callers :
            (path[p] = "miss" /\ pc[p] = "acquire"
                    /\ InFlight(key[p]) # {})
                ~> (pc[p] = "func")

\* The second of two concurrent first calls has returned the value of its own
\* invocation, the second for the key; the first call got the first value.
C12_Witness ==
    \E p, q \in Callers :
        /\ p # q /\ key[p] = key[q]
        /\ path[p] = "miss" /\ path[q] = "miss"
        /\ ~hadEntry[p] /\ ~hadEntry[q]
        /\ pc[p] = "idle" /\ pc[q] = "idle"
        /\ inv[p] = 1 /\ inv[q] = 2 /\ result[q] = 2 /\ result[p] = 1
        /\ calls = 2

\* C18: a key that has an entry has one in every later state; an entry is
\* stored or replaced only by the thread that holds the key's lock and has
\* just run the callable for that key, and what it stores is the value of
\* that invocation, so the values under two keys come from different
\* invocations; a call that reaches its return finds an entry for its key and
\* returns the value stored there, the value of an invocation for its key.
C18_EntriesStayAndComeFromInvocations ==
    [][/\ \A k \in DOMAIN cache : k \in DOMAIN cache'
       /\ \A k \in DOMAIN cache' :
            (k \notin DOMAIN cache \/ cache'[k] # cache[k]) =>
                \E p \in Procs :
                    /\ k \in DOMAIN running /\ Holder(k) = p
                    /\ key[p] = k /\ pc[p] = "assign" /\ ~exc[p]
                    /\ inv[p] \in 1..calls
                    /\ cache'[k] = <<inv[p], now>>
       /\ \A k1, k2 \in DOMAIN cache' :
            cache'[k1][1] = cache'[k2][1] => k1 = k2
       /\ \A p \in Callers :
            /\ pc'[p] = "return" => key'[p] \in DOMAIN cache'
            /\ (pc[p] = "return" /\ pc'[p] = "idle") =>
                /\ ~exc'[p]
                /\ result'[p] = cache[key[p]][1]
                /\ result'[p] \in 1..calls
      ]_vars

\* Both keys have entries; the entry of a caller's key was replaced while
\* the call was under way, and the call returned the value that replaced it.
C18_Witness ==
    \E p \in Callers :
        /\ DOMAIN cache = Keys
        /\ pc[p] = "idle" /\ hadEntry[p] /\ seen[p] > 0
        /\ result[p] > seen[p] /\ result[p] = cache[key[p]][1]

C20_KeyLockCreatedOnce ==
    [][/\ \A k \in DOMAIN running :
            k \in DOMAIN running' /\ running'[k] = running[k]
       /\ (running' # running \/ Len(locks') # Len(locks)) =>
            \E p \in Procs :
                /\ running_lock = p /\ pc[p] = "set"
                /\ key[p] \notin DOMAIN running
                /\ Len(locks') = Len(locks) + 1
                /\ running' = DictSet(running, key[p], Len(locks'))
       /\ Len(locks') = Cardinality(DOMAIN running')
       /\ \A k1, k2 \in DOMAIN running' :
            running'[k1] = running'[k2] => k1 = k2
      ]_vars

\* Two concurrent first calls for one key: one runs the callable holding the
\* key's lock, the other is blocked on it, and one lock object exists.
C20_Witness ==
    \E p, q \in Callers :
        /\ p # q /\ key[p] = key[q] /\ ~hadEntry[p] /\ ~hadEntry[q]
        /\ calls = 1 /\ cache = <<>>
        /\ pc[p] = "func" /\ pc[q] = "acquire" /\ block[q]
        /\ DOMAIN running = {key[p]} /\ Len(locks) = 1
        /\ Holder(key[q]) = p

\* --------------------------------------------------------- header: the claims

\* A text with a carriage return or a line feed in it.
HasLineBreak(t) == \E i \in DOMAIN t : t[i] \in {"\n", "\r"}

\* C13: a header call whose coerced name or coerced value has a carriage
\* return or a line feed in it raises the invalid-header error, whatever
\* unique is, and leaves the calling thread's ctx.headers as it was.
C13_LineBreakRejected ==
    [][\A t \in HThreads :
            (HasLineBreak(hlast'[t].hdr) \/ HasLineBreak(hlast'[t].value)) =>
                /\ hlast'[t].err = "ValueError"
                /\ headers'[t] = headers[t]
      ]_vars

\* A call with unique=True, a name already in the list and a line feed in
\* the value only has raised, and the list still holds its one entry.
C13_Witness ==
    \E t \in HThreads :
        /\ hlast[t].err = "ValueError" /\ hlast[t].unique
        /\ ~HasLineBreak(hlast[t].hdr) /\ HasLineBreak(hlast[t].value)
        /\ Len(headers[t]) = 1 /\ Exists(headers[t], hlast[t].hdr)

\* A header list that has the given name, ignoring case.
HasName(hs, h) == \E i \in DOMAIN hs : lower(hs[i][1]) = lower(h)

\* C14: a valid call with unique=True changes nothing when the list has the
\* name, ignoring case, and otherwise appends the one pair (name, value) at
\* the end; and while every call so far was valid and passed unique=True, no
\* two entries have names equal ignoring case, and the list holds, in the
\* order of their first calls, each name with the value of its first call.
C14_UniqueKeepsFirst ==
    [][\A t \in HThreads :
        /\ (hlast'[t].unique /\ hlast'[t].err = NoError) =>
                IF HasName(headers[t], hlast'[t].hdr)
                THEN headers'[t] = headers[t]
                ELSE headers'[t] = Append(headers[t],
                                          <<hlast'[t].hdr, hlast'[t].value>>)
        /\ allUnique'[t] =>
            /\ \A i, j \in DOMAIN headers'[t] :
                    lower(headers'[t][i][1]) = lower(headers'[t][j][1])
                        => i = j
            /\ Len(headers'[t]) = Len(firsts'[t])
            /\ \A i \in DOMAIN headers'[t] :
                    /\ lower(headers'[t][i][1]) = firsts'[t][i][1]
                    /\ headers'[t][i][2] = firsts'[t][i][2]
      ]_vars

\* After unique calls only, the last one naming in another case a header
\* that was there with another value: the list has the first value still.
C14_Witness ==
    \E t \in HThreads :
        /\ allUnique[t] /\ Len(headers[t]) = 2
        /\ headers[t][1] = <<<<"A">>, <<"w">>>>
        /\ hlast[t].hdr = <<"a">> /\ hlast[t].value = <<"v">>
        /\ hlast[t].err = NoError

\* -------------------------------------------------------- Storage: the claims

\* C15: after any sequence of member and subscript operations, for every key
\* the container holds, reading o.k gives what reading o[k] gives: the value
\* last written under k by either syntax.
C15_MemberReadIsSubscriptRead ==
    \A k \in DOMAIN store : AttrRead(store, k) = ItemRead(store, k)

\* C16: a member read or a member delete of a key the container does not
\* hold raises AttributeError with the key's name, not KeyError, and leaves
\* the content as it was.
C16_AbsentMemberRaisesAttributeError ==
    [][(slast'.op \in {"getattr", "delattr"} /\ slast'.absent) =>
            /\ slast'.kind = "AttributeError"
            /\ slast'.ekey = slast'.key
            /\ store' = store
      ]_vars

\* ------------------------------------------------------ htmlquote: the claims

\* The entity of one character.
Entity(c) ==
    CASE c = "&" -> <<"&", "a", "m", "p", ";">>
      [] c = "<" -> <<"&", "l", "t", ";">>
      [] c = ">" -> <<"&", "g", "t", ";">>
      [] c = "'" -> <<"&", "#", "3", "9", ";">>
      [] c = "\"" -> <<"&", "q", "u", "o", "t", ";">>
      [] OTHER -> <<c>>

\* Each character of a text replaced by its entity, independently.
RECURSIVE EachByEntity(_)
EachByEntity(t) ==
    IF t = <<>> THEN <<>> ELSE Entity(Head(t)) \o EachByEntity(Tail(t))

\* C17: what htmlquote returns is its argument with each character replaced
\* independently by its entity, so no ampersand a replacement brought in is
\* replaced again, and none of the characters < > ' " is left in it.
C17_SequentialIsPerCharacter ==
    qdone =>
        /\ quoted = EachByEntity(text)
        /\ \A i \in DOMAIN quoted : quoted[i] \notin {"<", ">", "'", "\""}

\* The text <&" has been quoted: one ampersand of the result came from the
\* argument and the other two from replacements made after it was replaced.
C17_Witness ==
    /\ qdone /\ text = <<"<", "&", "\"">>
    /\ quoted = <<"&", "l", "t", ";", "&", "a", "m", "p", ";",
                  "&", "q", "u", "o", "t", ";">>

====
